---- MODULE Spec2Model ----
(***************************************************************************)
(* Model of the /solve request handler of src/server.py: OCR token         *)
(* extraction, question matching against the catalog, the Gemini fallback, *)
(* the sliding-window answer localizer and the response that is returned.  *)
(*                                                                         *)
(* Strings are sequences of one-character strings; " " is the only         *)
(* whitespace character of the alphabet.                                   *)
(***************************************************************************)
EXTENDS Integers, Sequences, FiniteSets, TLC

VARIABLES pc, request, QUESTIONS_DB, ocr_data, valid_words, scores,
          match_result, best_match_q, gemini_called, correct_answers,
          done_answers, loc, click_coordinates, response

vars == <<pc, request, QUESTIONS_DB, ocr_data, valid_words, scores,
          match_result, best_match_q, gemini_called, correct_answers,
          done_answers, loc, click_coordinates, response>>

(***************************************************************************)
(* Bounds and program constants                                            *)
(***************************************************************************)
MaxOcr == 3

MaxLongOcr == 2

QuestionThreshold == 60

AnswerThreshold == 65

(***************************************************************************)
(* Strings                                                                 *)
(***************************************************************************)
Rep(c, n) == [i \in 1..n |-> c]

Min2(a, b) == IF a <= b THEN a ELSE b

Max2(a, b) == IF a >= b THEN a ELSE b

SeqsUpTo(S, n) == UNION {[1..m -> S] : m \in 0..n}

\* str.strip(): drop leading and trailing whitespace
Strip(s) ==
    LET NonSp == {j \in 1..Len(s) : s[j] # " "}
    IN  IF NonSp = {} THEN <<>>
        ELSE LET lo == CHOOSE j \in NonSp : \A m \in NonSp : j <= m
                 hi == CHOOSE j \in NonSp : \A m \in NonSp : j >= m
             IN  SubSeq(s, lo, hi)

\* len(str.split()): the number of maximal runs of non-whitespace characters
WordCount(s) ==
    Cardinality({j \in 1..Len(s) : s[j] # " " /\ (j = 1 \/ s[j - 1] = " ")})

\* " ".join(texts)
RECURSIVE Join(_)
Join(texts) ==
    IF Len(texts) = 0 THEN <<>>
    ELSE IF Len(texts) = 1 THEN texts[1]
    ELSE texts[1] \o <<" ">> \o Join(Tail(texts))

(***************************************************************************)
(* fuzz.ratio: the rounded normalised Indel similarity,                    *)
(* int(round(100 * 2 * LCS(s1, s2) / (len(s1) + len(s2))))                 *)
(***************************************************************************)
SetMin(S) == CHOOSE v \in S : \A u \in S : v <= u

SetMax(S) == CHOOSE v \in S : \A u \in S : v >= u

\* the number of leading positions at which s and t agree
CommonPrefixLen(s, t) ==
    LET m == Min2(Len(s), Len(t))
    IN  SetMin({j \in 1..m : s[j] # t[j]} \cup {m + 1}) - 1

CommonSuffixLen(s, t) ==
    LET m == Min2(Len(s), Len(t))
    IN  SetMin({j \in 1..m : s[Len(s) - j + 1] # t[Len(t) - j + 1]}
               \cup {m + 1}) - 1

Count(s, c) == Cardinality({j \in 1..Len(s) : s[j] = c})

IsRun(s) == \A j \in 1..Len(s) : s[j] = s[1]

\* one row of the longest-common-subsequence table from the row before it;
\* row[j + 1] is column j, and a row is the running maximum of its matches
LcsRow(prev, c, t) ==
    LET cand(m) == IF c = t[m] THEN prev[m] + 1 ELSE prev[m + 1]
    IN  [j \in 1..(Len(t) + 1) |->
            SetMax({0} \cup {cand(m) : m \in 1..(j - 1)})] \o <<>>

\* the rows for s[lo..hi], halving the range
RECURSIVE LcsRows(_, _, _, _, _)
LcsRows(s, t, prev, lo, hi) ==
    IF lo > hi THEN prev
    ELSE IF lo = hi THEN CHOOSE row \in {LcsRow(prev, s[lo], t)} : TRUE
    ELSE LET mid == (lo + hi) \div 2
         IN  CHOOSE row \in {LcsRows(s, t, half, mid + 1, hi) :
                                half \in {LcsRows(s, t, prev, lo, mid)}} : TRUE

LcsTable(long, short) ==
    LcsRows(long, short, Rep(0, Len(short) + 1), 1, Len(long))[Len(short) + 1]

\* the length of a longest common subsequence: common affixes are removed
\* first, as the library does; against a run of one character it is a count
Lcs(s, t) ==
    LET p  == CommonPrefixLen(s, t)
        s1 == SubSeq(s, p + 1, Len(s))
        t1 == SubSeq(t, p + 1, Len(t))
        q  == CommonSuffixLen(s1, t1)
        s2 == SubSeq(s1, 1, Len(s1) - q)
        t2 == SubSeq(t1, 1, Len(t1) - q)
    IN  p + q + (IF Len(s2) = 0 \/ Len(t2) = 0 THEN 0
                 ELSE IF IsRun(s2) THEN Min2(Len(s2), Count(t2, s2[1]))
                 ELSE IF IsRun(t2) THEN Min2(Len(t2), Count(s2, t2[1]))
                 ELSE IF Len(s2) >= Len(t2) THEN LcsTable(s2, t2)
                 ELSE LcsTable(t2, s2))

\* Python round(): to the nearest integer, halves to the even neighbour
RoundHalfEven(num, den) ==
    LET q == num \div den
        r == num % den
    IN  IF 2 * r < den THEN q
        ELSE IF 2 * r > den THEN q + 1
        ELSE IF q % 2 = 0 THEN q ELSE q + 1

Ratio(s1, s2) ==
    IF Len(s1) + Len(s2) = 0 THEN 100
    ELSE RoundHalfEven(200 * Lcs(s1, s2), Len(s1) + Len(s2))

(***************************************************************************)
(* Inputs of one request: what pytesseract.image_to_data, answers.json and *)
(* the Gemini call can deliver                                             *)
(***************************************************************************)
A49 == Rep("a", 49)

A100 == Rep("a", 100)

A101 == Rep("a", 101)

A6 == Rep("a", 6)

\* four words
W4 == <<"a", " ", "a", " ", "a", " ", "a", "a", "a">>

AB == <<"a", " ", "b">>

RawEntry(t, c, l, tp, w, h) ==
    [text |-> t, conf |-> c, left |-> l, top |-> tp, width |-> w, height |-> h]

\* words of one screen; the third needs trimming, the fourth has confidence 0
\* and the fifth is blank
ShortEntries ==
    { RawEntry(<<"a">>, 95, 100, 50, 40, 20),
      RawEntry(<<"b">>, 95, 150, 45, 25, 30),
      RawEntry(<<" ", "a", " ">>, 1, 10, 20, 40, 20),
      RawEntry(<<"b">>, 0, 60, 300, 33, 12),
      RawEntry(<<" ">>, 95, 5, 5, 9, 9),
      RawEntry(A6, 80, 210, 52, 61, 17) }

\* very long words, on a screen of their own
LongEntries ==
    { RawEntry(A100, 90, 20, 200, 701, 15),
      RawEntry(A101, 90, 20, 100, 708, 18) }

OcrOutputs ==
    SeqsUpTo(ShortEntries, MaxOcr) \cup SeqsUpTo(LongEntries, MaxLongOcr)

Ans(t, c) == [text |-> t, isCorrect |-> c]

Q1 == [text |-> "q1",
       answers |-> <<Ans(W4, TRUE), Ans(<<"b">>, FALSE), Ans(<<"a">>, TRUE)>>]

Q2 == [text |-> "q2", answers |-> <<Ans(A100, TRUE), Ans(A49, TRUE)>>]

\* a second entry with the text of Q1
Q3 == [text |-> "q1", answers |-> <<Ans(<<"b">>, TRUE), Ans(<<"a">>, FALSE)>>]

Catalogs == {<<>>, <<Q1, Q2>>, <<Q3, Q1>>}

\* fuzz.partial_ratio(full_text_str, question text) is taken as an oracle:
\* one score per catalog entry, equal texts scoring equally
ScoreSet == {60, 61, 75}

ScoreAssignments(db) ==
    {f \in [1..Len(db) -> ScoreSet] :
        \A i, j \in 1..Len(db) : db[i].text = db[j].text => f[i] = f[j]}

GeminiOutputs == {<<>>, <<AB, <<"b">>>>}

Requests == {"no_image_part", "empty_filename", "ok"}

(***************************************************************************)
(* 1. OCR processing                                                       *)
(***************************************************************************)
Word(e) ==
    [text |-> Strip(e.text), x |-> e.left, y |-> e.top, w |-> e.width, h |-> e.height]

\* a variant that also keeps words of confidence 0
KeepWord_conf0(e) == Len(Strip(e.text)) > 0 /\ e.conf >= 0

KeepWord(e) == Len(Strip(e.text)) > 0 /\ e.conf > 0

RECURSIVE BuildWords(_, _)
BuildWords(data, acc) ==
    IF Len(data) = 0 THEN acc
    ELSE BuildWords(Tail(data),
                    IF KeepWord(Head(data)) THEN Append(acc, Word(Head(data)))
                    ELSE acc)

(***************************************************************************)
(* 2. Find question                                                        *)
(***************************************************************************)
\* process.extractOne: the first choice with the highest score, None if
\* there is no choice
ExtractOne(db, sc) ==
    IF Len(db) = 0 THEN <<>>
    ELSE LET best == CHOOSE i \in 1..Len(db) :
                         /\ \A j \in 1..Len(db) : sc[j] <= sc[i]
                         /\ \A j \in 1..(i - 1) : sc[j] < sc[i]
         IN  <<[text |-> db[best].text, score |-> sc[best]]>>

\* a variant that accepts a score equal to the threshold
QuestionAccepted_atleast(score) == score >= QuestionThreshold

QuestionAccepted(score) == score > QuestionThreshold

\* the index of the first catalog entry with the matched text; 0 is None
FindQuestionIndex(db, mr) ==
    IF Len(mr) = 0 THEN 0
    ELSE IF ~QuestionAccepted(mr[1].score) THEN 0
    ELSE LET hits == {i \in 1..Len(db) : db[i].text = mr[1].text}
         IN  IF hits = {} THEN 0
             ELSE CHOOSE i \in hits : \A j \in hits : i <= j

RECURSIVE CorrectTexts(_)
CorrectTexts(answers) ==
    IF Len(answers) = 0 THEN <<>>
    ELSE (IF Head(answers).isCorrect THEN <<Head(answers).text>> ELSE <<>>)
         \o CorrectTexts(Tail(answers))

(***************************************************************************)
(* 4. Locate answers on screen                                             *)
(***************************************************************************)
\* a variant that rounds 0.6 * target_len up
MinLen_ceil(target_len) == Max2(1, (6 * target_len + 9) \div 10)

\* a variant that always starts at windows of one word
MinLen_one(target_len) == 1

MinLen(target_len) == Max2(1, (6 * target_len) \div 10)

MaxLen(target_len) == 2 * target_len + 2

\* range(len(valid_words) - length + 1), as <<length, i>> pairs
WindowsOfLength(length, n) ==
    [m \in 1..Max2(0, n - length + 1) |-> <<length, m - 1>>]

RECURSIVE ScanOrder(_, _, _)
ScanOrder(length, max_len, n) ==
    IF length > max_len THEN <<>>
    ELSE WindowsOfLength(length, n) \o ScanOrder(length + 1, max_len, n)

WindowText(words, i, length) == Join([m \in 1..length |-> words[i + m].text])

\* a variant in which an equal score replaces the current best
Better_orequal(score, best_window_score) == score >= best_window_score

Better(score, best_window_score) == score > best_window_score

RECURSIVE Scan(_, _, _, _)
Scan(answer, words, windows, best) ==
    IF Len(windows) = 0 THEN best
    ELSE LET length == Head(windows)[1]
             i      == Head(windows)[2]
             window_text == WindowText(words, i, length)
             score  == Ratio(answer, window_text)
         IN  Scan(answer, words, Tail(windows),
                  IF Better(score, best.best_window_score)
                  THEN [best_window_score |-> score,
                        best_window_idx |-> i,
                        best_window_len |-> length]
                  ELSE best)

NoWindow ==
    [best_window_score |-> 0, best_window_idx |-> -1, best_window_len |-> 0]

\* a variant that accepts a score equal to the threshold
GoodMatch_atleast(best_window_score) == best_window_score >= AnswerThreshold

GoodMatch(best_window_score) == best_window_score > AnswerThreshold

\* a variant that forgets the width and height of the words
BoundingBox_corners(words_in_window) ==
    LET I == 1..Len(words_in_window)
    IN  [min_x |-> SetMin({words_in_window[m].x : m \in I}),
         min_y |-> SetMin({words_in_window[m].y : m \in I}),
         max_x |-> SetMax({words_in_window[m].x : m \in I}),
         max_y |-> SetMax({words_in_window[m].y : m \in I})]

BoundingBox(words_in_window) ==
    LET I == 1..Len(words_in_window)
    IN  [min_x |-> SetMin({words_in_window[m].x : m \in I}),
         min_y |-> SetMin({words_in_window[m].y : m \in I}),
         max_x |-> SetMax({words_in_window[m].x + words_in_window[m].w : m \in I}),
         max_y |-> SetMax({words_in_window[m].y + words_in_window[m].h : m \in I})]

\* a variant that rounds the half up
Center_up(lo, hi) == lo + (hi - lo + 1) \div 2

Center(lo, hi) == lo + (hi - lo) \div 2

\* the body of `for answer in correct_answers`, with the locals it leaves
Localize(answer, words) ==
    LET target_len == WordCount(answer)
        min_len == MinLen(target_len)
        max_len == MaxLen(target_len)
        scanned == IF Len(words) >= min_len
                   THEN ScanOrder(min_len, max_len, Len(words))
                   ELSE <<>>
        best == Scan(answer, words, scanned, NoWindow)
        found == GoodMatch(best.best_window_score)
        words_in_window ==
            SubSeq(words, best.best_window_idx + 1,
                   best.best_window_idx + best.best_window_len)
    IN  [answer |-> answer, target_len |-> target_len,
         min_len |-> min_len, max_len |-> max_len, scanned |-> scanned,
         best_window_score |-> best.best_window_score,
         best_window_idx |-> best.best_window_idx,
         best_window_len |-> best.best_window_len,
         found |-> found,
         box |-> IF found THEN <<BoundingBox(words_in_window)>> ELSE <<>>]

ClickTarget(l) ==
    [x |-> Center(l.box[1].min_x, l.box[1].max_x),
     y |-> Center(l.box[1].min_y, l.box[1].max_y),
     text |-> l.answer]

\* a variant that leaves a placeholder for an answer that was not found
Collect_placeholder(clicks, l) ==
    IF l.found THEN Append(clicks, ClickTarget(l))
    ELSE Append(clicks, [x |-> -1, y |-> -1, text |-> l.answer])

Collect(clicks, l) == IF l.found THEN Append(clicks, ClickTarget(l)) ELSE clicks

NoLoc ==
    [answer |-> <<>>, target_len |-> 0, min_len |-> 0, max_len |-> 0,
     scanned |-> <<>>, best_window_score |-> 0, best_window_idx |-> -1,
     best_window_len |-> 0, found |-> FALSE,
     box |-> <<>>]

(***************************************************************************)
(* Responses                                                               *)
(***************************************************************************)
ErrorResponse(status, msg) == [status |-> status, error |-> msg, body |-> <<>>]

NoResponse == [status |-> 0, error |-> "", body |-> <<>>]

\* a variant that answers an empty list when there is no answer text
NotFoundResponse_emptylist == [status |-> 200, error |-> "", body |-> <<>>]

NotFoundResponse == ErrorResponse(404, "Question not found and fallback failed")

CoordinatesResponse(clicks) == [status |-> 200, error |-> "", body |-> clicks]

(***************************************************************************)
(* The request handler, step by step                                       *)
(***************************************************************************)
Init ==
    /\ pc = "start"
    /\ request \in Requests
    /\ QUESTIONS_DB \in Catalogs
    /\ ocr_data = <<>>
    /\ valid_words = <<>>
    /\ scores = <<>>
    /\ match_result = <<>>
    /\ best_match_q = 0
    /\ gemini_called = FALSE
    /\ correct_answers = <<>>
    /\ done_answers = 0
    /\ loc = NoLoc
    /\ click_coordinates = <<>>
    /\ response = NoResponse

ReturnNoImagePart ==
    /\ pc = "start"
    /\ request = "no_image_part"
    /\ response' = ErrorResponse(400, "No image part")
    /\ pc' = "done"
    /\ UNCHANGED <<request, QUESTIONS_DB, ocr_data, valid_words, scores,
                   match_result, best_match_q, gemini_called, correct_answers,
                   done_answers, loc, click_coordinates>>

ReturnNoSelectedFile ==
    /\ pc = "start"
    /\ request = "empty_filename"
    /\ response' = ErrorResponse(400, "No selected file")
    /\ pc' = "done"
    /\ UNCHANGED <<request, QUESTIONS_DB, ocr_data, valid_words, scores,
                   match_result, best_match_q, gemini_called, correct_answers,
                   done_answers, loc, click_coordinates>>

RunOcr ==
    /\ pc = "start"
    /\ request = "ok"
    /\ \E data \in OcrOutputs : ocr_data' = data
    /\ pc' = "extract"
    /\ UNCHANGED <<request, QUESTIONS_DB, valid_words, scores, match_result,
                   best_match_q, gemini_called, correct_answers, done_answers,
                   loc, click_coordinates, response>>

\* Image.open or image_to_data raises: the except clause answers 500
OcrError ==
    /\ pc = "start"
    /\ request = "ok"
    /\ response' = ErrorResponse(500, "exception")
    /\ pc' = "done"
    /\ UNCHANGED <<request, QUESTIONS_DB, ocr_data, valid_words, scores,
                   match_result, best_match_q, gemini_called, correct_answers,
                   done_answers, loc, click_coordinates>>

BuildValidWords ==
    /\ pc = "extract"
    /\ valid_words' = BuildWords(ocr_data, <<>>)
    /\ pc' = "match"
    /\ UNCHANGED <<request, QUESTIONS_DB, ocr_data, scores, match_result,
                   best_match_q, gemini_called, correct_answers, done_answers,
                   loc, click_coordinates, response>>

FindQuestion ==
    /\ pc = "match"
    /\ \E sc \in ScoreAssignments(QUESTIONS_DB) :
          /\ scores' = sc
          /\ match_result' = ExtractOne(QUESTIONS_DB, sc)
          /\ best_match_q' =
                 FindQuestionIndex(QUESTIONS_DB, ExtractOne(QUESTIONS_DB, sc))
    /\ pc' = "select"
    /\ UNCHANGED <<request, QUESTIONS_DB, ocr_data, valid_words, gemini_called,
                   correct_answers, done_answers, loc, click_coordinates,
                   response>>

UseCatalogAnswers ==
    /\ pc = "select"
    /\ best_match_q # 0
    /\ correct_answers' = CorrectTexts(QUESTIONS_DB[best_match_q].answers)
    /\ pc' = "check"
    /\ UNCHANGED <<request, QUESTIONS_DB, ocr_data, valid_words, scores,
                   match_result, best_match_q, gemini_called, done_answers,
                   loc, click_coordinates, response>>

GeminiFallback ==
    /\ pc = "select"
    /\ best_match_q = 0
    /\ gemini_called' = TRUE
    /\ \E answers \in GeminiOutputs : correct_answers' = answers
    /\ pc' = "check"
    /\ UNCHANGED <<request, QUESTIONS_DB, ocr_data, valid_words, scores,
                   match_result, best_match_q, done_answers, loc,
                   click_coordinates, response>>

ReturnNotFound ==
    /\ pc = "check"
    /\ Len(correct_answers) = 0
    /\ response' = NotFoundResponse
    /\ pc' = "done"
    /\ UNCHANGED <<request, QUESTIONS_DB, ocr_data, valid_words, scores,
                   match_result, best_match_q, gemini_called, correct_answers,
                   done_answers, loc, click_coordinates>>

StartLocating ==
    /\ pc = "check"
    /\ Len(correct_answers) > 0
    /\ pc' = "locate"
    /\ UNCHANGED <<request, QUESTIONS_DB, ocr_data, valid_words, scores,
                   match_result, best_match_q, gemini_called, correct_answers,
                   done_answers, loc, click_coordinates, response>>

LocalizeAnswer ==
    /\ pc = "locate"
    /\ done_answers < Len(correct_answers)
    /\ LET l == Localize(correct_answers[done_answers + 1], valid_words)
       IN  /\ loc' = l
           /\ click_coordinates' = Collect(click_coordinates, l)
    /\ done_answers' = done_answers + 1
    /\ UNCHANGED <<pc, request, QUESTIONS_DB, ocr_data, valid_words, scores,
                   match_result, best_match_q, gemini_called, correct_answers,
                   response>>

ReturnCoordinates ==
    /\ pc = "locate"
    /\ done_answers = Len(correct_answers)
    /\ response' = CoordinatesResponse(click_coordinates)
    /\ pc' = "done"
    /\ UNCHANGED <<request, QUESTIONS_DB, ocr_data, valid_words, scores,
                   match_result, best_match_q, gemini_called, correct_answers,
                   done_answers, loc, click_coordinates>>

Next ==
    \/ ReturnNoImagePart
    \/ ReturnNoSelectedFile
    \/ RunOcr
    \/ OcrError
    \/ BuildValidWords
    \/ FindQuestion
    \/ UseCatalogAnswers
    \/ GeminiFallback
    \/ ReturnNotFound
    \/ StartLocating
    \/ LocalizeAnswer
    \/ ReturnCoordinates

Spec == Init /\ [][Next]_vars

(***************************************************************************)
(* Properties.  The search space, the best score and the kept words are    *)
(* restated here from their descriptions, without the operators the        *)
(* handler is built from.                                                  *)
(***************************************************************************)
NumWords == Len(valid_words)

Iterated == done_answers >= 1

AnswersChosen == best_match_q # 0 \/ gemini_called

Finished == pc = "done" /\ AnswersChosen

\* the words of a string, counted by the positions where a word ends
WordEnds(s) ==
    Cardinality({j \in 1..Len(s) :
                    s[j] # " " /\ (j = Len(s) \/ s[j + 1] = " ")})

\* max(1, floor(0.6 * words))
FloorMin(a) ==
    LET f == (6 * WordEnds(a)) \div 10 IN IF f >= 1 THEN f ELSE 1

\* max(1, ceil(0.6 * words))
CeilMin(a) ==
    LET c == (6 * WordEnds(a) + 9) \div 10 IN IF c >= 1 THEN c ELSE 1

\* floor(2.0 * words) + 2
UpperLen(a) == 2 * WordEnds(a) + 2

\* the windows <<length, start>> of lo..hi words that fit in the token sequence
WindowsFrom(lo, hi) ==
    {w \in (lo..hi) \X (0..(NumWords - 1)) : w[2] + w[1] <= NumWords}

SearchSpace(a) == WindowsFrom(FloorMin(a), UpperLen(a))

ScoreAt(a, w) == Ratio(a, WindowText(valid_words, w[2], w[1]))

TopScore(a) ==
    IF SearchSpace(a) = {} THEN 0
    ELSE LET S == {ScoreAt(a, w) : w \in SearchSpace(a)}
         IN  CHOOSE v \in S : \A u \in S : u <= v

\* v comes before w in the scan: shorter windows first, then smaller starts
Earlier(v, w) == v[1] < w[1] \/ (v[1] = w[1] /\ v[2] < w[2])

BestWindow == <<loc.best_window_len, loc.best_window_idx>>

AllWindows == WindowsFrom(1, NumWords)

Verbatim(w) == WindowText(valid_words, w[2], w[1]) = loc.answer

HasVerbatim == \E w \in AllWindows : Verbatim(w)

\* b is exactly the box around the words of window w
Encloses(b, w) ==
    LET I == (w[2] + 1)..(w[2] + w[1])
    IN  /\ I # {}
        /\ \A m \in I : /\ b.min_x <= valid_words[m].x
                        /\ b.min_y <= valid_words[m].y
                        /\ b.max_x >= valid_words[m].x + valid_words[m].w
                        /\ b.max_y >= valid_words[m].y + valid_words[m].h
        /\ \E m \in I : b.min_x = valid_words[m].x
        /\ \E m \in I : b.min_y = valid_words[m].y
        /\ \E m \in I : b.max_x = valid_words[m].x + valid_words[m].w
        /\ \E m \in I : b.max_y = valid_words[m].y + valid_words[m].h

LastClick == click_coordinates[Len(click_coordinates)]

C2_VerbatimWins ==
    (Iterated /\ Len(loc.answer) > 0 /\ HasVerbatim)
        => /\ loc.best_window_score = 100
           /\ loc.found
           /\ \E w \in AllWindows : Verbatim(w) /\ Encloses(loc.box[1], w)

\* C2 amended: the winning window scores 100 and the box is exactly the box
\* of the winning window; for an answer of fewer than 100 characters the
\* winning window is a verbatim run
C2_VerbatimWinsShortAnswers ==
    (Iterated /\ Len(loc.answer) > 0 /\ HasVerbatim)
        => /\ loc.best_window_score = 100
           /\ loc.found
           /\ BestWindow \in AllWindows
           /\ Encloses(loc.box[1], BestWindow)
           /\ (Len(loc.answer) < 100 => Verbatim(BestWindow))

\* C2 witness: a two-word answer whose verbatim run starts at the second of three tokens
C2_Witness ==
    /\ Iterated
    /\ loc.answer = AB
    /\ NumWords = 3
    /\ BestWindow = <<2, 1>>
    /\ Verbatim(BestWindow)
    /\ loc.found

\* C3: every answer is run through the localizer, and the click targets are
\* the located answers, in answer order, each with its answer text and with
\* nothing standing in for an answer that was not located
C3_ClicksAreLocatedAnswersInOrder ==
    LET processed == SubSeq(correct_answers, 1, done_answers)
        expected  == SelectSeq(processed,
                               LAMBDA a : TopScore(a) > AnswerThreshold)
    IN  /\ Len(click_coordinates) = Len(expected)
        /\ \A k \in 1..Len(expected) : click_coordinates[k].text = expected[k]
        /\ (pc = "done" /\ response.status = 200)
               => /\ done_answers = Len(correct_answers)
                  /\ response.body = click_coordinates

\* C3 witness: a four-word answer skipped for lack of tokens, followed by a located one
C3_Witness ==
    /\ pc = "done"
    /\ response.status = 200
    /\ correct_answers = <<W4, <<"a">>>>
    /\ NumWords = 1
    /\ NumWords < FloorMin(W4)
    /\ Len(response.body) = 1
    /\ response.body[1].text = <<"a">>

\* C4: a question is accepted only with a best score above 60; the fallback
\* is consulted exactly when none is accepted; the answers of an accepted
\* question are its correct answers in catalog order
C4_AcceptAboveSixtyElseFallback ==
    (pc \in {"check", "locate", "done"} /\ AnswersChosen)
        => LET I == 1..Len(QUESTIONS_DB)
               accepted == \E i \in I : scores[i] > 60
           IN  /\ gemini_called <=> ~accepted
               /\ accepted =>
                    \E i \in I :
                       /\ \A j \in I : scores[j] <= scores[i]
                       /\ LET sel == SelectSeq(QUESTIONS_DB[i].answers,
                                               LAMBDA a : a.isCorrect)
                          IN  correct_answers =
                                  [k \in 1..Len(sel) |-> sel[k].text]

\* C4 witness: the second question wins with 75 over an accepted 61
C4_Witness ==
    /\ pc = "check"
    /\ QUESTIONS_DB = <<Q1, Q2>>
    /\ scores = <<61, 75>>
    /\ correct_answers = <<A100, A49>>
    /\ ~gemini_called

\* C5: the click point is the integer centre min + (max - min) // 2 of the
\* box of the winning window; the box (100, 50, 40, 20) gives (120, 60) and
\* the box from (10, 20) to (50, 40) gives (30, 30)
C5_ClickIsFloorCentre ==
    (Iterated /\ loc.found)
        => LET c == LastClick
               I == (loc.best_window_idx + 1)..(loc.best_window_idx + loc.best_window_len)
           IN  \E a \in I, b \in I, d \in I, e \in I :
                  LET mnx == valid_words[a].x
                      mny == valid_words[b].y
                      mxx == valid_words[d].x + valid_words[d].w
                      mxy == valid_words[e].y + valid_words[e].h
                  IN  /\ \A m \in I : /\ mnx <= valid_words[m].x
                                      /\ mny <= valid_words[m].y
                                      /\ mxx >= valid_words[m].x + valid_words[m].w
                                      /\ mxy >= valid_words[m].y + valid_words[m].h
                      /\ (mxx - mnx) - 2 * (c.x - mnx) \in {0, 1}
                      /\ (mxy - mny) - 2 * (c.y - mny) \in {0, 1}
                      /\ c.text = loc.answer
                      /\ (mnx = 100 /\ mny = 50 /\ mxx = 140 /\ mxy = 70)
                             => (c.x = 120 /\ c.y = 60)
                      /\ (mnx = 10 /\ mny = 20 /\ mxx = 50 /\ mxy = 40)
                             => (c.x = 30 /\ c.y = 30)

\* C5 witness: a single winning token with the box (100, 50, 40, 20)
C5_Witness ==
    /\ pc = "done"
    /\ NumWords = 1
    /\ valid_words[1] = [text |-> <<"a">>, x |-> 100, y |-> 50, w |-> 40, h |-> 20]
    /\ response.status = 200
    /\ response.body = <<[x |-> 120, y |-> 60, text |-> <<"a">>]>>

Qualifies(e) == (\E j \in 1..Len(e.text) : e.text[j] # " ") /\ e.conf >= 1

KeptEntries == {i \in 1..Len(ocr_data) : Qualifies(ocr_data[i])}

\* C6: the token sequence is the raw OCR entries with non-blank text and
\* confidence above 0, in their order, none missing and none added, and it
\* stays so through every later stage
C6_TokensAreQualifyingEntries ==
    (pc \notin {"start", "extract"})
        => /\ Len(valid_words) = Cardinality(KeptEntries)
           /\ \A i \in KeptEntries :
                 LET k == Cardinality({j \in KeptEntries : j <= i})
                     e == ocr_data[i]
                 IN  /\ valid_words[k].text = Strip(e.text)
                     /\ valid_words[k].x = e.left
                     /\ valid_words[k].y = e.top
                     /\ valid_words[k].w = e.width
                     /\ valid_words[k].h = e.height

\* C6 witness: two of three raw entries are dropped, one for confidence 0 and one blank
C6_Witness ==
    /\ pc = "done"
    /\ response.status = 200
    /\ Len(ocr_data) = 3
    /\ ocr_data[1].conf = 0
    /\ Len(Strip(ocr_data[2].text)) = 0
    /\ KeptEntries = {3}
    /\ Len(valid_words) = 1

ScannedLengths == {loc.scanned[k][1] : k \in 1..Len(loc.scanned)}

\* C7 as stated: the scanned window lengths are those from
\* max(1, ceil(0.6 * target_len)) to floor(2.0 * target_len) + 2 that fit,
\* and nothing is scanned with fewer tokens than that minimum
C7_RangeFromCeil ==
    Iterated
        => /\ ScannedLengths =
                 {L \in CeilMin(loc.answer)..UpperLen(loc.answer) : L <= NumWords}
           /\ (NumWords < CeilMin(loc.answer) => loc.scanned = <<>>)

\* C7 amended: the same with max(1, floor(0.6 * target_len)) as the minimum
C7_RangeFromFloor ==
    Iterated
        => /\ loc.target_len = WordEnds(loc.answer)
           /\ loc.min_len = FloorMin(loc.answer)
           /\ loc.max_len = UpperLen(loc.answer)
           /\ ScannedLengths =
                 {L \in FloorMin(loc.answer)..UpperLen(loc.answer) : L <= NumWords}
           /\ {loc.scanned[k] : k \in 1..Len(loc.scanned)} = SearchSpace(loc.answer)
           /\ (NumWords < FloorMin(loc.answer) => loc.scanned = <<>>)

\* C7 witness: a two-word answer whose scan starts at windows of one token
C7_Witness ==
    /\ Iterated
    /\ loc.answer = AB
    /\ NumWords = 3
    /\ ScannedLengths = {1, 2, 3}
    /\ CeilMin(loc.answer) = 2

\* C8: a click target is produced for an answer exactly when its best window
\* score is above 65; a best score of 65 or less, or no window at all, gives
\* no click target
C8_ClickIffAboveSixtyFive ==
    Iterated
        => /\ loc.found <=> TopScore(loc.answer) > 65
           /\ Len(click_coordinates) =
                 Cardinality({k \in 1..done_answers :
                                 TopScore(correct_answers[k]) > 65})
           /\ loc.found => LastClick.text = loc.answer

\* C8 witness: a best score of exactly 65 after an answer that was located
C8_Witness ==
    /\ Iterated
    /\ done_answers = 2
    /\ TopScore(loc.answer) = 65
    /\ ~loc.found
    /\ Len(click_coordinates) = 1

\* C9: the retained window has the highest score of all scanned windows and
\* is the first of them in scan order with that score
C9_FirstOfTheBest ==
    Iterated
        => /\ loc.best_window_score = TopScore(loc.answer)
           /\ IF TopScore(loc.answer) > 0
              THEN /\ BestWindow \in SearchSpace(loc.answer)
                   /\ ScoreAt(loc.answer, BestWindow) = TopScore(loc.answer)
                   /\ \A v \in SearchSpace(loc.answer) :
                         Earlier(v, BestWindow)
                             => ScoreAt(loc.answer, v) < TopScore(loc.answer)
              ELSE BestWindow = <<0, -1>>

\* C9 witness: the winner ties with a later window of its length and is not the first scanned
C9_Witness ==
    /\ Iterated
    /\ loc.best_window_score > 0
    /\ \E v \in SearchSpace(loc.answer) :
          /\ Earlier(BestWindow, v)
          /\ v[1] = loc.best_window_len
          /\ ScoreAt(loc.answer, v) = loc.best_window_score
    /\ \E v \in SearchSpace(loc.answer) :
          /\ Earlier(v, BestWindow)
          /\ v[1] = loc.best_window_len

====
